---- MODULE Spec2Model ----
(***************************************************************************)
(* Model of the two call-wrapping policies of cashews:                     *)
(*   - decorators/rate.py : rate_limit (backend counter per concrete key)  *)
(*   - decorators/perf.py : perf (in-process trace + backend lock)         *)
(* The backend (incr / expire / is_locked / set_lock) is an external       *)
(* collaborator; it is modelled from its contract.                         *)
(***************************************************************************)
EXTENDS Integers, Sequences, FiniteSets, TLC

VARIABLES
    \* ---- rate_limit: static configuration of one rate_limit(...) call
    limit, period, ttl, action,
    \* ---- rate_limit: backend state (counter value, 0 = no entry; remaining expiry)
    counter, expiry,
    \* ---- rate_limit: history: key went over the limit and was not reset by a new window
    limited,
    \* ---- rate_limit: the call of wrapped_func that has just finished (NoCall otherwise)
    rlast,
    \* ---- perf: static configuration of the perf(...) calls
    trace_size, perf_condition, lock_ttl,
    \* ---- perf: call_results deque of every perf(...) object, backend locks
    call_results, locks,
    \* ---- perf: the call of _wrap that has just finished (NoCall otherwise)
    plast,
    \* ---- formatter: _REGISTER, the number of register_template calls made, and
    \* the operation that has just finished
    registry, nreg, flast,
    \* ---- rate_limit under interleaving: every task's position in wrapped_func, and
    \* history: the entry of the key has had its expiry set to ttl by the limit+1 call
    rtasks, ban,
    \* ---- perf under interleaving: every task's position in _wrap, and history: the
    \* appends made to the trace since the last set_lock was issued (None: no set_lock)
    ptasks, psince

rateVars == <<limit, period, ttl, action, counter, expiry, limited, rlast>>
perfVars == <<trace_size, perf_condition, lock_ttl, call_results, locks, plast>>
fmtVars == <<registry, nreg, flast>>
rconcVars == <<rtasks, ban>>
pconcVars == <<ptasks, psince>>
vars == <<rateVars, perfVars, fmtVars, rconcVars, pconcVars>>

\* ------------------------------------------------------------------ bounds
MaxLimit == 2
MaxCount == 4
MaxPeriod == 2
MaxTtl == 3
MaxTraceSize == 2
MaxDur == 3
MaxLockTtl == 2
MaxRegs == 2
MaxKeyLen == 3

\* ------------------------------------------------------------- vocabulary
\* Python None of an Optional[int] (ttl, an absent expiry): a value no timeout takes
None == -1
NoCall == [kind |-> "none"]
Keys == {"k1", "k2"}
Limits == 0 .. MaxLimit
Periods == 1 .. MaxPeriod
Ttls == {None} \cup (1 .. MaxTtl)
Actions == {"_default_action", "noop_action"}
\* what the wrapped function does when it is awaited: returns r1 or raises
FuncOutcomes == {"r1", "FuncError"}
\* what a non-raising action returns (discarded by wrapped_func)
ActionValue == "a1"

\* ---------------------------------------------------------------- helpers
\* Python truthiness of an Optional[int]
Truthy(x) == x # None /\ x # 0

\* position of the first occurrence of e in sequence s, 0 when absent
IndexOf(s, e) ==
    IF \E i \in 1 .. Len(s) : s[i] = e
    THEN CHOOSE i \in 1 .. Len(s) : s[i] = e /\ \A j \in 1 .. i - 1 : s[j] # e
    ELSE 0

Occurrences(s, e) == Cardinality({i \in 1 .. Len(s) : s[i] = e})

\* ------------------------------------------------------ backend (contract)
\* incr(key): atomic increment, creating the counter at 1 when absent
incr(c, k) == [c EXCEPT ![k] = @ + 1]

\* expire(key, timeout): set / overwrite the TTL of an existing key
expire(e, c, k, timeout) == IF c[k] > 0 THEN [e EXCEPT ![k] = timeout] ELSE e

\* ------------------------------------------------------------- rate_limit
\* off by one: the limit-th call is already refused
OverLimitGe(requests_count) == requests_count # 0 /\ requests_count >= limit

\* rate.py:51  `requests_count and requests_count > limit`
OverLimit(requests_count) == requests_count # 0 /\ requests_count > limit

\* rate.py:52  `ttl and requests_count == limit + 1`
BanStart(requests_count) == Truthy(ttl) /\ requests_count = limit + 1

\* incr taken to return the value before the increment
WindowStartZero(requests_count) == requests_count = 0

\* rate.py:57  `requests_count == 1`
WindowStart(requests_count) == requests_count = 1

\* rate.py:16-17 / 40: the default action raises, a substituted one may return
ActionRaises == action = "_default_action"

\* the action's return value handed to the caller
ReturnedAction(action_value, func_outcome) == action_value

\* rate.py:60  `return await func(*args, **kwargs)`: what the caller gets
\* once the wrapped function has been awaited
Returned(action_value, func_outcome) == func_outcome

\* The steps one call of wrapped_func performs, in order (rate.py:50-60), each with
\* the key or the call arguments it is given (the concrete key k stands for the
\* call's arguments: get_cache_key binds them into it).
Steps(k, requests_count) ==
    LET over == OverLimit(requests_count)
        raised == over /\ ActionRaises
    IN  <<<<"incr", k>>>>
        \o (IF over /\ BanStart(requests_count) THEN <<<<"expire_ttl", k>>>> ELSE <<>>)
        \o (IF over THEN <<<<"action", k>>>> ELSE <<>>)
        \o (IF ~raised /\ WindowStart(requests_count)
            THEN <<<<"expire_period", k>>>> ELSE <<>>)
        \o (IF ~raised THEN <<<<"func", k>>>> ELSE <<>>)

\* The expiry table after the steps of a call on key k (counter c already incremented)
ExpiryAfter(steps, e, c, k) ==
    LET e1 == IF IndexOf(steps, <<"expire_ttl", k>>) > 0 THEN expire(e, c, k, ttl) ELSE e
    IN  IF IndexOf(steps, <<"expire_period", k>>) > 0 THEN expire(e1, c, k, period) ELSE e1

\* One whole call of the decorated function on concrete key k.
wrapped_func(k, func_outcome) ==
    /\ counter[k] < MaxCount
    /\ LET c == incr(counter, k)
           requests_count == c[k]
           steps == Steps(k, requests_count)
           invoked == IndexOf(steps, <<"func", k>>) > 0
       IN  /\ counter' = c
           /\ expiry' = ExpiryAfter(steps, expiry, c, k)
           /\ limited' = [limited EXCEPT ![k] =
                            IF OverLimit(requests_count) THEN TRUE
                            ELSE IF requests_count = 1 THEN FALSE ELSE @]
           /\ rlast' = [kind |-> "call", key |-> k, count |-> requests_count,
                        steps |-> steps,
                        recovery |-> limited[k] /\ counter[k] = 0,
                        func_outcome |-> func_outcome,
                        outcome |-> IF invoked THEN Returned(ActionValue, func_outcome)
                                    ELSE "RateLimitException"]
    /\ UNCHANGED <<limit, period, ttl, action>>
    /\ UNCHANGED <<perfVars, fmtVars, rconcVars, pconcVars>>

RateCall == \E k \in Keys, o \in FuncOutcomes : wrapped_func(k, o)

\* One second passes on the backend: every entry with an expiry gets one second
\* older, and an entry whose expiry runs out is deleted.
RateTick ==
    /\ \E k \in Keys : counter[k] > 0 /\ expiry[k] # None
    /\ counter' = [k \in Keys |->
                     IF counter[k] > 0 /\ expiry[k] # None /\ expiry[k] <= 1
                     THEN 0 ELSE counter[k]]
    /\ expiry' = [k \in Keys |->
                     IF counter[k] > 0 /\ expiry[k] # None
                     THEN (IF expiry[k] <= 1 THEN None ELSE expiry[k] - 1)
                     ELSE expiry[k]]
    /\ rlast' = NoCall
    /\ UNCHANGED <<limit, period, ttl, action, limited>>
    /\ UNCHANGED <<perfVars, fmtVars, rconcVars, pconcVars>>

\* no task is inside wrapped_func
Tasks == {"t1", "t2"}
IdleTask == [pc |-> "idle", key |-> "none", count |-> 0]

RConcIdle ==
    /\ rtasks = [t \in Tasks |-> IdleTask]
    /\ ban = [k \in Keys |-> FALSE]

\* no task is inside _wrap
IdlePerfTask == [pc |-> "idle", func |-> "none", arg |-> "none", seen |-> FALSE,
                 fresh |-> 0]

PConcIdle ==
    /\ ptasks = [t \in Tasks |-> IdlePerfTask]
    /\ psince = None

FmtIdle ==
    /\ registry = {}
    /\ nreg = 0
    /\ flast = NoCall

PerfIdle ==
    /\ trace_size = 0
    /\ perf_condition = "default"
    /\ lock_ttl = 1
    /\ call_results = <<>>
    /\ locks = {}
    /\ plast = NoCall
    /\ PConcIdle

RateInit ==
    /\ limit \in Limits
    /\ period \in Periods
    /\ ttl \in Ttls
    /\ action \in Actions
    /\ counter = [k \in Keys |-> 0]
    /\ expiry = [k \in Keys |-> None]
    /\ limited = [k \in Keys |-> FALSE]
    /\ rlast = NoCall
    /\ PerfIdle
    /\ FmtIdle
    /\ RConcIdle

RateNext == RateCall \/ RateTick

RateSpec == RateInit /\ [][RateNext]_vars

\* ------------------------------------------- rate_limit under interleaving
\* Calls of wrapped_func run as tasks of one event loop: a task runs from one
\* await to the next without interruption, and between two awaits of a task the
\* other tasks may run. A backend operation takes effect, atomically, at the step
\* at which its task resumes with the result.

\* where a task goes after line 51-55: the action raised, or lines 57-60
AfterAction(requests_count) ==
    IF OverLimit(requests_count) /\ ActionRaises THEN "idle"
    ELSE IF WindowStart(requests_count) THEN "expire_period"
    ELSE "func"

\* where a task goes once incr has returned requests_count (rate.py:51-53)
AfterIncr(requests_count) ==
    IF OverLimit(requests_count) /\ BanStart(requests_count) THEN "expire_ttl"
    ELSE AfterAction(requests_count)

Moved(t, pc, k, requests_count) ==
    [rtasks EXCEPT ![t] = IF pc = "idle" THEN IdleTask
                          ELSE [pc |-> pc, key |-> k, count |-> requests_count]]

RStep(t, op, k) ==
    [kind |-> "step", task |-> t, op |-> op, key |-> k, count |-> rtasks[t].count,
     ban |-> ban[k] /\ counter[k] > 0]

\* rate.py:47-50: the call is made and reaches `await backend.incr(...)`
wrapped_func_enter(t, k) ==
    /\ rtasks[t].pc = "idle"
    /\ rtasks' = Moved(t, "incr", k, 0)
    /\ rlast' = RStep(t, "call", k)
    /\ UNCHANGED <<limit, period, ttl, action, counter, expiry, limited, ban>>
    /\ UNCHANGED <<perfVars, fmtVars, pconcVars>>

\* rate.py:50-53 (and 55-57 when no expire(ttl) is due): incr returns
wrapped_func_incr(t) ==
    LET k == rtasks[t].key
        c == incr(counter, k)
    IN  /\ rtasks[t].pc = "incr"
        /\ counter[k] < MaxCount
        /\ counter' = c
        /\ limited' = [limited EXCEPT ![k] =
                         IF OverLimit(c[k]) THEN TRUE
                         ELSE IF c[k] = 1 THEN FALSE ELSE @]
        /\ ban' = [ban EXCEPT ![k] = IF c[k] = 1 THEN FALSE ELSE @]
        /\ rtasks' = Moved(t, AfterIncr(c[k]), k, c[k])
        /\ rlast' = [RStep(t, "incr", k) EXCEPT !.count = c[k]]
        /\ UNCHANGED <<limit, period, ttl, action, expiry>>
        /\ UNCHANGED <<perfVars, fmtVars, pconcVars>>

\* rate.py:53-57: expire(ttl) returns, the action is called
wrapped_func_expire_ttl(t) ==
    LET k == rtasks[t].key
    IN  /\ rtasks[t].pc = "expire_ttl"
        /\ expiry' = expire(expiry, counter, k, ttl)
        /\ ban' = [ban EXCEPT ![k] = counter[k] > 0]
        /\ rtasks' = Moved(t, AfterAction(rtasks[t].count), k, rtasks[t].count)
        /\ rlast' = RStep(t, "expire_ttl", k)
        /\ UNCHANGED <<limit, period, ttl, action, counter, limited>>
        /\ UNCHANGED <<perfVars, fmtVars, pconcVars>>

\* rate.py:58-60: expire(period) returns, the wrapped function is awaited
wrapped_func_expire_period(t) ==
    LET k == rtasks[t].key
    IN  /\ rtasks[t].pc = "expire_period"
        /\ expiry' = expire(expiry, counter, k, period)
        /\ rtasks' = Moved(t, "func", k, rtasks[t].count)
        /\ rlast' = RStep(t, "expire_period", k)
        /\ UNCHANGED <<limit, period, ttl, action, counter, limited, ban>>
        /\ UNCHANGED <<perfVars, fmtVars, pconcVars>>

\* rate.py:60: the wrapped function returns or raises, the call is over
wrapped_func_return(t) ==
    /\ rtasks[t].pc = "func"
    /\ rtasks' = Moved(t, "idle", "none", 0)
    /\ rlast' = RStep(t, "func", rtasks[t].key)
    /\ UNCHANGED <<limit, period, ttl, action, counter, expiry, limited, ban>>
    /\ UNCHANGED <<perfVars, fmtVars, pconcVars>>

RateConcStep ==
    \E t \in Tasks :
        \/ \E k \in Keys : wrapped_func_enter(t, k)
        \/ wrapped_func_incr(t)
        \/ wrapped_func_expire_ttl(t)
        \/ wrapped_func_expire_period(t)
        \/ wrapped_func_return(t)

RateConcInit == RateInit

RateConcNext == RateConcStep \/ RateTick

RateConcSpec == RateConcInit /\ [][RateConcNext]_vars

\* ------------------------------------------------------------------- perf
\* Two perf(...) objects: p1 decorates f and g, p2 decorates h.
PerfObjs == {"p1", "p2"}
Funcs == {"f", "g", "h"}
DecoratedBy(fn) == IF fn = "h" THEN "p2" ELSE "p1"
\* the calls made: f with two argument combinations, g and h with one
Args == {"a1", "a2"}
Calls == {<<"f", "a1">>, <<"f", "a2">>, <<"g", "a1">>, <<"h", "a1">>}
Durations == 1 .. MaxDur
\* f and g take any duration, h always takes the shortest one
DurationsOf(fn) == IF fn = "h" THEN {1} ELSE Durations
TraceSizes == 0 .. MaxTraceSize
PerfConditions == {"default", "always"}
LockTtls == 1 .. MaxLockTtl

RECURSIVE Sum(_)
Sum(s) == IF s = <<>> THEN 0 ELSE Head(s) + Sum(Tail(s))

\* get_cache_key(func, _key_template, args, kwargs, func_args): the default template
\* names the function, the binder fills in the call's arguments
get_cache_key(fn, a) == <<fn, a>>

\* the lock key built from the function's template, not from the concrete key
LockKeyPerFunc(cache_key) == <<<<cache_key[1], "*">>, "lock">>

\* perf.py:52,58  `_cache_key + ":lock"`
LockKey(cache_key) == <<cache_key, "lock">>

\* The backend's lock table is kept as the set of lock keys present: nothing in
\* perf.py reads a lock's value or expiry back, they are only passed to set_lock.
\* backend contract: is_locked(lockKey) -> boolean
is_locked(L, lk) == lk \in L

\* backend contract: set_lock(lockKey, value, expire)
set_lock(L, lk, value, exp) == L \cup {lk}

\* a plain list: nothing is ever dropped
ListAppend(tr, d, maxlen) == Append(tr, d)

\* collections.deque(maxlen=n).append: the oldest entry is dropped when full
DequeAppend(tr, d, maxlen) ==
    IF maxlen = 0 THEN <<>>
    ELSE IF Len(tr) >= maxlen THEN Tail(tr) \o <<d>>
    ELSE Append(tr, d)

\* non-strict comparison
DefaultPerfConditionLe(current, previous) ==
    IF Len(previous) = 0 THEN "StatisticsError"
    ELSE IF 2 * Sum(previous) <= current * Len(previous) THEN "True" ELSE "False"

\* perf.py:12-13  `mean(previous) * 2 < current`; statistics.mean raises
\* StatisticsError on an empty sequence
_default_perf_condition(current, previous) ==
    IF Len(previous) = 0 THEN "StatisticsError"
    ELSE IF 2 * Sum(previous) < current * Len(previous) THEN "True" ELSE "False"

\* perf.py:41: the configured condition (a caller-supplied one that always holds)
PerfCondition(current, previous) ==
    IF perf_condition = "default" THEN _default_perf_condition(current, previous)
    ELSE "True"

\* the check of the lock is skipped
BlockedNever(locked) == FALSE

\* perf.py:52-53  `if await backend.is_locked(...): raise PerfDegradationException()`
Blocked(locked) == locked

\* the duration is recorded in a finally block, whatever the function did
ReachedAlways(func_outcome) == TRUE

\* perf.py:55-56: the statements after `result = await func(...)` run only when
\* the function returned; an exception leaves _wrap at line 55
Reached(func_outcome) == func_outcome # "FuncError"

\* perf.py:57  `len(call_results) == trace_size and perf_condition(takes, call_results)`
\* (`and` evaluates the condition only on a full trace)
Decision(tr, takes) ==
    IF Len(tr) = trace_size THEN PerfCondition(takes, tr) ELSE "False"

\* The steps one call of _wrap performs, in order (perf.py:51-62).
PerfSteps(fn, a, takes, func_outcome, L, tr) ==
    LET lk == LockKey(get_cache_key(fn, a))
        p == DecoratedBy(fn)
    IN  <<<<"is_locked", lk>>>>
        \o (IF Blocked(is_locked(L, lk)) THEN <<>>
            ELSE <<<<"func", a>>>>
                 \o (IF ~Reached(func_outcome) THEN <<>>
                     ELSE IF Decision(tr, takes) = "StatisticsError"
                          THEN <<<<"perf_condition", takes>>>>
                     ELSE IF Decision(tr, takes) = "True"
                          THEN <<<<"perf_condition", takes>>,
                                 <<"set_lock", <<lk, takes, lock_ttl>>>>,
                                 <<"clear", p>>>>
                     ELSE (IF Len(tr) = trace_size
                           THEN <<<<"perf_condition", takes>>>> ELSE <<>>)
                          \o <<<<"append", p>>>>))

HasStep(steps, op) == \E i \in 1 .. Len(steps) : steps[i][1] = op
StepArg(steps, op) == steps[CHOOSE i \in 1 .. Len(steps) : steps[i][1] = op][2]

\* what the caller of _wrap gets
PerfOutcome(steps, func_outcome) ==
    IF ~HasStep(steps, "func") THEN "PerfDegradationException"
    ELSE IF func_outcome = "FuncError" THEN "FuncError"
    ELSE IF HasStep(steps, "clear") \/ HasStep(steps, "append") THEN func_outcome
    ELSE "StatisticsError"

\* One whole call of the decorated function fn with arguments a; the wrapped
\* function takes `takes` and returns or raises.
_wrap(fn, a, takes, func_outcome) ==
    LET p == DecoratedBy(fn)
        tr == call_results[p]
        steps == PerfSteps(fn, a, takes, func_outcome, locks, tr)
    IN  /\ locks' = IF HasStep(steps, "set_lock")
                    THEN LET x == StepArg(steps, "set_lock")
                         IN  set_lock(locks, x[1], x[2], x[3])
                    ELSE locks
        /\ call_results' =
              IF HasStep(steps, "clear") THEN [call_results EXCEPT ![p] = <<>>]
              ELSE IF HasStep(steps, "append")
                   THEN [call_results EXCEPT ![p] = DequeAppend(tr, takes, trace_size)]
              ELSE call_results
        /\ plast' = [kind |-> "call", func |-> fn, arg |-> a,
                     \* perf.py:56: takes exists only once the function has returned
                     takes |-> IF HasStep(steps, "func") /\ Reached(func_outcome)
                               THEN takes ELSE None,
                     func_outcome |-> IF HasStep(steps, "func")
                                      THEN func_outcome ELSE "not called",
                     steps |-> steps,
                     held |-> locks,
                     before |-> tr,
                     outcome |-> PerfOutcome(steps, func_outcome)]
        /\ UNCHANGED <<trace_size, perf_condition, lock_ttl>>
        /\ UNCHANGED <<rateVars, fmtVars, rconcVars, pconcVars>>

PerfCall ==
    \E c \in Calls : \E d \in DurationsOf(c[1]), o \in FuncOutcomes :
        _wrap(c[1], c[2], d, o)

\* A lock's expiry runs out on the backend.
LockExpire ==
    /\ \E lk \in locks : locks' = locks \ {lk}
    /\ plast' = NoCall
    /\ UNCHANGED <<trace_size, perf_condition, lock_ttl, call_results>>
    /\ UNCHANGED <<rateVars, fmtVars, rconcVars, pconcVars>>

RateIdle ==
    /\ limit = 0
    /\ period = 1
    /\ ttl = None
    /\ action = "_default_action"
    /\ counter = [k \in Keys |-> 0]
    /\ expiry = [k \in Keys |-> None]
    /\ limited = [k \in Keys |-> FALSE]
    /\ rlast = NoCall
    /\ RConcIdle

PerfInit ==
    /\ trace_size \in TraceSizes
    /\ perf_condition \in PerfConditions
    /\ lock_ttl \in LockTtls
    /\ call_results = [p \in PerfObjs |-> <<>>]
    /\ locks = {}
    /\ plast = NoCall
    /\ PConcIdle
    /\ RateIdle
    /\ FmtIdle

PerfNext == PerfCall \/ LockExpire

PerfSpec == PerfInit /\ [][PerfNext]_vars

\* ------------------------------------------------- perf under interleaving
\* Concurrent calls of the decorated function f (perf object p1) run as tasks of
\* one event loop. An awaited backend operation (is_locked, set_lock) is atomic on
\* the backend, and its task resumes with the result in a later step; the other
\* tasks may run in between, as they may while the wrapped function is awaited.
ConcCalls == {<<"f", "a1">>, <<"f", "a2">>}

TaskLockKey(t) == LockKey(get_cache_key(ptasks[t].func, ptasks[t].arg))

\* the tasks that wait for set_lock to return and will clear the trace
Clearing(t) == ptasks[t].pc \in {"set_lock", "locked"}

PStep(t, op) ==
    [kind |-> "step", task |-> t, op |-> op, func |-> ptasks[t].func,
     arg |-> ptasks[t].arg, present |-> is_locked(locks, TaskLockKey(t)),
     seen |-> ptasks[t].seen, fresh |-> ptasks[t].fresh, since |-> psince]

\* perf.py:50-52: the call is made and reaches `await backend.is_locked(...)`
_wrap_enter(t, c) ==
    /\ ptasks[t].pc = "idle"
    /\ ptasks' = [ptasks EXCEPT ![t] = [pc |-> "is_locked", func |-> c[1],
                                        arg |-> c[2], seen |-> FALSE, fresh |-> 0]]
    /\ plast' = [PStep(t, "call") EXCEPT !.func = c[1], !.arg = c[2],
                    !.present = is_locked(locks, LockKey(get_cache_key(c[1], c[2])))]
    /\ UNCHANGED <<trace_size, perf_condition, lock_ttl, call_results, locks, psince>>
    /\ UNCHANGED <<rateVars, fmtVars, rconcVars>>

\* perf.py:52: the backend answers is_locked
_wrap_is_locked(t) ==
    /\ ptasks[t].pc = "is_locked"
    /\ ptasks' = [ptasks EXCEPT ![t].pc = "checked",
                                ![t].seen = is_locked(locks, TaskLockKey(t))]
    /\ plast' = PStep(t, "is_locked")
    /\ UNCHANGED <<trace_size, perf_condition, lock_ttl, call_results, locks, psince>>
    /\ UNCHANGED <<rateVars, fmtVars, rconcVars>>

\* perf.py:52-55: the task resumes with the answer: it raises
\* PerfDegradationException, or starts the wrapped function
_wrap_start(t) ==
    /\ ptasks[t].pc = "checked"
    /\ IF Blocked(ptasks[t].seen)
       THEN /\ ptasks' = [ptasks EXCEPT ![t] = IdlePerfTask]
            /\ plast' = PStep(t, "raise")
       ELSE /\ ptasks' = [ptasks EXCEPT ![t].pc = "func"]
            /\ plast' = PStep(t, "start")
    /\ UNCHANGED <<trace_size, perf_condition, lock_ttl, call_results, locks, psince>>
    /\ UNCHANGED <<rateVars, fmtVars, rconcVars>>

\* perf.py:55-62: the wrapped function returns after `takes` (or raises); the
\* condition is evaluated, and set_lock is issued or the duration is appended
_wrap_func_return(t, takes, func_outcome) ==
    LET p == DecoratedBy(ptasks[t].func)
        tr == call_results[p]
        decision == IF Reached(func_outcome) THEN Decision(tr, takes) ELSE "none"
    IN  /\ ptasks[t].pc = "func"
        /\ IF decision = "True"
           THEN /\ ptasks' = [ptasks EXCEPT ![t].pc = "set_lock", ![t].fresh = 0]
                /\ psince' = 0
                /\ plast' = PStep(t, "issue_set_lock")
                /\ UNCHANGED call_results
           ELSE IF decision = "False"
           THEN /\ call_results' = [call_results EXCEPT
                                       ![p] = DequeAppend(tr, takes, trace_size)]
                /\ ptasks' = [u \in Tasks |->
                                IF u = t THEN IdlePerfTask
                                ELSE IF Clearing(u) /\ ptasks[u].fresh < trace_size
                                     THEN [ptasks[u] EXCEPT !.fresh = @ + 1]
                                     ELSE ptasks[u]]
                /\ psince' = IF psince # None /\ psince < trace_size
                             THEN psince + 1 ELSE psince
                /\ plast' = PStep(t, "append")
           ELSE /\ ptasks' = [ptasks EXCEPT ![t] = IdlePerfTask]
                /\ plast' = PStep(t, "error")
                /\ UNCHANGED <<call_results, psince>>
        /\ UNCHANGED <<trace_size, perf_condition, lock_ttl, locks>>
        /\ UNCHANGED <<rateVars, fmtVars, rconcVars>>

\* perf.py:58: the backend performs set_lock
_wrap_set_lock(t) ==
    /\ ptasks[t].pc = "set_lock"
    /\ locks' = set_lock(locks, TaskLockKey(t), 0, lock_ttl)
    /\ ptasks' = [ptasks EXCEPT ![t].pc = "locked"]
    /\ plast' = PStep(t, "set_lock")
    /\ UNCHANGED <<trace_size, perf_condition, lock_ttl, call_results, psince>>
    /\ UNCHANGED <<rateVars, fmtVars, rconcVars>>

\* perf.py:59,62: the task resumes after set_lock and clears the trace
_wrap_clear(t) ==
    /\ ptasks[t].pc = "locked"
    /\ call_results' = [call_results EXCEPT ![DecoratedBy(ptasks[t].func)] = <<>>]
    /\ ptasks' = [u \in Tasks |->
                    IF u = t THEN IdlePerfTask
                    ELSE IF Clearing(u) THEN [ptasks[u] EXCEPT !.fresh = 0]
                    ELSE ptasks[u]]
    /\ plast' = PStep(t, "clear")
    /\ UNCHANGED <<trace_size, perf_condition, lock_ttl, locks, psince>>
    /\ UNCHANGED <<rateVars, fmtVars, rconcVars>>

PerfConcStep ==
    \E t \in Tasks :
        \/ \E c \in ConcCalls : _wrap_enter(t, c)
        \/ _wrap_is_locked(t)
        \/ _wrap_start(t)
        \/ \E d \in Durations, o \in FuncOutcomes : _wrap_func_return(t, d, o)
        \/ _wrap_set_lock(t)
        \/ _wrap_clear(t)

PerfConcInit == PerfInit

PerfConcNext == PerfConcStep \/ LockExpire

PerfConcSpec == PerfConcInit /\ [][PerfConcNext]_vars

\* -------------------------------------------------------------- formatter
\* Strings are sequences of characters. A template is the sequence of the parts
\* string.Formatter.parse yields: literal characters and replacement fields
\* {name} or {name:spec}.
Lit(c) == [t |-> "lit", v |-> c, spec |-> ""]
Fld(name) == [t |-> "fld", v |-> name, spec |-> ""]
FldSpec(name, spec) == [t |-> "fld", v |-> name, spec |-> spec]

\* the templates registered and formatted:
\*   "u:{a}"  "{a}{b}"  "u.{a}"  "{a}:{a}"  "u:{a:len}"
Templates ==
    { <<Lit("u"), Lit(":"), Fld("a")>>,
      <<Fld("a"), Fld("b")>>,
      <<Lit("u"), Lit("."), Fld("a")>>,
      <<Fld("a"), Lit(":"), Fld("a")>>,
      <<Lit("u"), Lit(":"), FldSpec("a", "len")>> }

Fields(tpl) == {tpl[i].v : i \in {j \in 1 .. Len(tpl) : tpl[j].t = "fld"}}
HasAlias(tpl) == \E i \in 1 .. Len(tpl) : tpl[i].t = "fld" /\ tpl[i].spec # ""

\* the template as the string that is passed to register_template
TemplateString(tpl) ==
    LET Part(x) == IF x.t = "lit" THEN <<x.v>>
                   ELSE IF x.spec = "" THEN <<"{", x.v, "}">>
                   ELSE <<"{", x.v, ":", x.spec, "}">>
        F[i \in 0 .. Len(tpl)] == IF i = 0 THEN <<>> ELSE F[i - 1] \o Part(tpl[i])
    IN  F[Len(tpl)]

\* values bound to fields: None, True, and strings ("", "u", "u:u")
VNone == [ty |-> "none", v |-> <<>>]
VTrue == [ty |-> "bool", v |-> <<"T", "r", "u", "e">>]
VStr(s) == [ty |-> "str", v |-> s]
FValues == {VNone, VTrue, VStr(<<>>), VStr(<<"u">>), VStr(<<"u", ":", "u">>)}

\* str.lower on the characters used
Lower(s) == [i \in 1 .. Len(s) |-> IF s[i] = "T" THEN "t" ELSE s[i]]

\* formatter.py:54-59 format_value, followed by format(): the string form
format_value(value) ==
    IF value.ty = "none" THEN <<>>
    ELSE IF value.ty = "bool" THEN Lower(value.v)
    ELSE value.v

Digits == <<"0", "1", "2", "3", "4", "5", "6", "7", "8", "9">>

\* formatter.py:39-44 _FuncFormatter.format_field with the registered function len
\* (formatter.py:63): the field's string, or a TypeError for a value without len
format_field(value, spec) ==
    IF spec = "len"
    THEN IF value.ty = "str"
         THEN [ok |-> TRUE, s |-> <<Digits[Len(value.v) + 1]>>]
         ELSE [ok |-> FALSE, s |-> <<>>]
    ELSE [ok |-> TRUE, s |-> format_value(value)]

\* formatter.py:80-81 template_to_pattern(template, _formatter=default_formatter,
\* **values): literal text verbatim, every field by format_field of its value.
Format(tpl, values) ==
    LET Part(x) == IF x.t = "lit" THEN [ok |-> TRUE, s |-> <<x.v>>]
                   ELSE format_field(values[x.v], x.spec)
        F[i \in 0 .. Len(tpl)] ==
            IF i = 0 THEN [ok |-> TRUE, s |-> <<>>]
            ELSE [ok |-> F[i - 1].ok /\ Part(tpl[i]).ok,
                  s |-> F[i - 1].s \o Part(tpl[i]).s]
    IN  F[Len(tpl)]

\* the template returned as it was registered
template_as_registered(tpl) == TemplateString(tpl)

\* formatter.py:80-81 template_to_pattern(template) with the default
\* _ReplaceFormatter: every field is replaced by "*"
template_to_pattern(tpl) ==
    [i \in 1 .. Len(tpl) |-> IF tpl[i].t = "lit" THEN tpl[i].v ELSE "*"]

\* formatter.py:84-85 _re_default: the group name of a field
GroupName(field_name) == field_name

\* every literal character escaped (re.escape), so that it only matches itself
ReAtomEscaped(x) ==
    IF x.t = "fld" THEN [t |-> "grp", v |-> GroupName(x.v)]
    ELSE [t |-> "chr", v |-> x.v]

\* formatter.py:93 template_to_pattern(template, _formatter=_re_formatter): the
\* regular expression a template part becomes. Literal text is copied unescaped,
\* so "." is the regular expression that matches any character; a field becomes
\* (?P<name>[^:]*) whatever its format spec.
ReAtom(x) ==
    IF x.t = "fld" THEN [t |-> "grp", v |-> GroupName(x.v)]
    ELSE IF x.v = "." THEN [t |-> "any", v |-> "."]
    ELSE [t |-> "chr", v |-> x.v]

PatternSource(tpl) == [i \in 1 .. Len(tpl) |-> ReAtom(tpl[i])]

\* re.compile raises re.error when a group name is defined twice
Compilable(src) ==
    \A i, j \in 1 .. Len(src) :
        (src[i].t = "grp" /\ src[j].t = "grp" /\ src[i].v = src[j].v) => i = j

\* a pattern object per call of re.compile, equal only to itself
compile_fresh(src, n) == [src |-> src, flags |-> "MULTILINE", id |-> n]

\* formatter.py:94 re.compile(pattern, flags=re.MULTILINE): pattern objects are
\* equal (and hash alike) when their source and flags are, whichever call made them
re_compile(src, n) == [src |-> src, flags |-> "MULTILINE", id |-> 0]

Drop(s, n) == SubSeq(s, n + 1, Len(s))

\* length of the longest prefix of s without ":"
RECURSIVE Run(_)
Run(s) == IF s = <<>> \/ Head(s) = ":" THEN 0 ELSE 1 + Run(Tail(s))

SetMax(S) == CHOOSE n \in S : \A m \in S : m <= n

\* The body of a pattern matched against the rest of the key up to its end ("$"),
\* as the backtracking matcher does: a group [^:]* takes the longest run that lets
\* the rest match. Result: whether it matches and the groups as <<name, string>>.
RECURSIVE MatchBody(_, _)
MatchBody(src, s) ==
    IF src = <<>> THEN [ok |-> s = <<>>, groups |-> <<>>]
    ELSE LET x == Head(src)
         IN  IF x.t = "grp"
             THEN LET good == {n \in 0 .. Run(s) : MatchBody(Tail(src), Drop(s, n)).ok}
                  IN  IF good = {} THEN [ok |-> FALSE, groups |-> <<>>]
                      ELSE LET n == SetMax(good)
                           IN  [ok |-> TRUE,
                                groups |-> <<<<x.v, SubSeq(s, 1, n)>>>>
                                           \o MatchBody(Tail(src), Drop(s, n)).groups]
             ELSE IF s # <<>> /\ (x.t = "any" \/ Head(s) = x.v)
                  THEN MatchBody(Tail(src), Tail(s))
                  ELSE [ok |-> FALSE, groups |-> <<>>]

\* formatter.py:93,105,113 compile_pattern.fullmatch(key) for the pattern
\* "(.*[:])?" + body + "$": the optional prefix is greedy, the longest prefix
\* ending in ":" that lets the body match is taken, no prefix is tried last.
fullmatch(pattern, key) ==
    LET cuts == {p \in 1 .. Len(key) :
                    key[p] = ":" /\ MatchBody(pattern.src, Drop(key, p)).ok}
    IN  IF cuts # {} THEN MatchBody(pattern.src, Drop(key, SetMax(cuts)))
        ELSE MatchBody(pattern.src, key)

\* function identities: (func.__module__ or "", func.__name__)
FuncIds == {<<"m", "f">>, <<"m", "g">>}

KeyChars == {"u", ":"}
AllKeys == UNION {[1 .. n -> KeyChars] : n \in 0 .. MaxKeyLen}

\* the entries of _REGISTER whose pattern fully matches key
Matching(reg, key) == {e \in reg : fullmatch(e.pattern, key).ok}

\* formatter.py:92-95 register_template(func, template)
register_template(func, tpl) ==
    /\ nreg < MaxRegs
    /\ nreg' = nreg + 1
    /\ LET src == PatternSource(tpl)
       IN  IF Compilable(src)
           THEN /\ registry' = registry \cup
                       {[func |-> func, template |-> tpl,
                         pattern |-> re_compile(src, nreg)]}
                /\ flast' = [kind |-> "register", func |-> func, template |-> tpl,
                             before |-> registry, raised |-> FALSE]
           ELSE /\ registry' = registry
                /\ flast' = [kind |-> "register", func |-> func, template |-> tpl,
                             before |-> registry, raised |-> TRUE]
    /\ UNCHANGED <<rateVars, perfVars, rconcVars, pconcVars>>

Register == \E func \in FuncIds, tpl \in Templates : register_template(func, tpl)

\* formatter.py:102-107 get_template_and_func_for(key): the first entry whose
\* pattern matches, in the iteration order of the dict and of its sets (any of the
\* matching entries can come first)
get_template_and_func_for(key) ==
    /\ IF Matching(registry, key) = {}
       THEN flast' = [kind |-> "by_key", key |-> key, found |-> FALSE]
       ELSE \E e \in Matching(registry, key) :
                flast' = [kind |-> "by_key", key |-> key, found |-> TRUE,
                          template |-> template_to_pattern(e.template),
                          func |-> e.func]
    /\ UNCHANGED <<registry, nreg, rateVars, perfVars, rconcVars, pconcVars>>

LookupByKey == \E key \in AllKeys : get_template_and_func_for(key)

\* formatter.py:110-116 get_template_for_key(key), with the value map and the
\* template the key was formatted from, if any
get_template_for_key(key, origin) ==
    /\ IF Matching(registry, key) = {}
       THEN flast' = [kind |-> "fields", key |-> key, origin |-> origin,
                      found |-> FALSE]
       ELSE \E e \in Matching(registry, key) :
                flast' = [kind |-> "fields", key |-> key, origin |-> origin,
                          found |-> TRUE, template |-> e.template,
                          groups |-> fullmatch(e.pattern, key).groups]
    /\ UNCHANGED <<registry, nreg, rateVars, perfVars, rconcVars, pconcVars>>

NoOrigin == [formatted |-> FALSE]

LookupFields == \E key \in AllKeys : get_template_for_key(key, NoOrigin)

\* A key is formatted from a registered template and a value map that binds
\* every field, and looked up again.
RoundTrip ==
    \E e \in registry : \E values \in [Fields(e.template) -> FValues] :
        /\ Format(e.template, values).ok
        /\ get_template_for_key(Format(e.template, values).s,
                                [formatted |-> TRUE, template |-> e.template,
                                 values |-> values])

FmtInit ==
    /\ FmtIdle
    /\ RateIdle
    /\ PerfIdle

FmtNext == Register \/ LookupByKey \/ LookupFields \/ RoundTrip

FmtSpec == FmtInit /\ [][FmtNext]_vars

\* ------------------------------------------------- rate_limit: properties
RCalled == rlast.kind = "call"
RInvoked == RCalled /\ IndexOf(rlast.steps, <<"func", rlast.key>>) > 0

\* C1: with the default action, the call whose incr returns n invokes the wrapped
\* function and hands its outcome to the caller iff n <= limit; every call with
\* n > limit fails with RateLimitException and does not invoke the function.
C1_DefaultActionLimit ==
    (RCalled /\ action = "_default_action") =>
        /\ RInvoked <=> rlast.count <= limit
        /\ rlast.count <= limit => rlast.outcome = rlast.func_outcome
        /\ rlast.count > limit => rlast.outcome = "RateLimitException" /\ ~RInvoked

C1_Witness ==
    /\ RCalled /\ action = "_default_action" /\ limit = 2
    /\ rlast.count = 3 /\ rlast.outcome = "RateLimitException"

\* C2 (as claimed): when ttl is configured, for every limit >= 0 and every action,
\* after the call whose incr returns limit + 1 the expiry of the key is ttl.
C2_BanExpiryIsTtl ==
    (RCalled /\ ttl # None /\ rlast.count = limit + 1) => expiry[rlast.key] = ttl

\* C3 (as claimed): every call whose incr returns 1 sets the expiry to period, so
\* the counter it created has an expiry when the call ends.
C3_FirstCallSetsPeriod ==
    (RCalled /\ rlast.count = 1) =>
        /\ IndexOf(rlast.steps, <<"expire_period", rlast.key>>) > 0
        /\ expiry[rlast.key] # None

\* C4: with limit >= 1, the first call on a key after it was limited and its entry
\* expired obtains count 1, sets the expiry to period and invokes the function.
C4_Recovery ==
    (RCalled /\ limit >= 1 /\ rlast.recovery) =>
        /\ rlast.count = 1
        /\ IndexOf(rlast.steps, <<"expire_period", rlast.key>>) > 0
        /\ expiry[rlast.key] = period
        /\ RInvoked

C4_Witness ==
    /\ RCalled /\ limit >= 1 /\ rlast.recovery
    /\ rlast.count = 1 /\ expiry[rlast.key] = period /\ RInvoked

PCalled == plast.kind = "call"
PLock == <<<<plast.func, plast.arg>>, "lock">>
PLocked == PCalled /\ PLock \in plast.held
PInvoked == PCalled /\ HasStep(plast.steps, "func")
PTrace == call_results[DecoratedBy(plast.func)]
PTouched ==
    \/ HasStep(plast.steps, "append")
    \/ HasStep(plast.steps, "clear")
    \/ HasStep(plast.steps, "set_lock")

\* C5: a call that finds '<concrete key>:lock' present fails with
\* PerfDegradationException, does not invoke the wrapped function, leaves the trace
\* as it was and sets no lock; a call that does not find it invokes the function.
C5_OpenCircuit ==
    PCalled =>
        /\ PLocked =>
              /\ plast.outcome = "PerfDegradationException"
              /\ ~PInvoked
              /\ ~PTouched
              /\ PTrace = plast.before
              /\ locks = plast.held
        /\ ~PLocked => PInvoked

C5_Witness ==
    /\ PLocked /\ plast.outcome = "PerfDegradationException"
    /\ Len(plast.before) > 0

C7_FailingCallRecorded ==
    (PCalled /\ plast.func_outcome = "FuncError") =>
        /\ plast.outcome = "FuncError"
        /\ HasStep(plast.steps, "append") \/ HasStep(plast.steps, "set_lock")

\* C7 (amended): when the wrapped function raises in a call that is not blocked, the
\* error reaches the caller unchanged and the call contributes nothing: no duration
\* is measured, the trace and the locks are left as they were.
C7_FailingCallNotRecorded ==
    (PCalled /\ plast.func_outcome = "FuncError") =>
        /\ plast.outcome = "FuncError"
        /\ plast.takes = None
        /\ ~PTouched
        /\ PTrace = plast.before
        /\ locks = plast.held

C7_Witness ==
    /\ PCalled /\ plast.func_outcome = "FuncError" /\ plast.outcome = "FuncError"
    /\ trace_size > 0 /\ Len(plast.before) = trace_size
    /\ PTrace = plast.before

\* C9 (as claimed): a call of one decorated function never adds to, evicts from or
\* clears the trace that decides degradation for a different decorated function,
\* also when both were decorated with the object of one perf(...) call.
C9_OwnTrace ==
    PCalled =>
        \A g \in Funcs \ {plast.func} :
            \A i \in 1 .. Len(plast.steps) :
                plast.steps[i][1] \in {"append", "clear"} =>
                    plast.steps[i][2] # DecoratedBy(g)

\* C10: the trace a call records in is the one of its decorated function whatever
\* the concrete key; a lock is only ever set for the key of the call whose duration
\* triggered the condition; a call fails with PerfDegradationException only on a
\* lock for its own key, never on one held for another key.
C10_PerKeyLockSharedTrace ==
    PCalled =>
        /\ \A i \in 1 .. Len(plast.steps) :
              plast.steps[i][1] \in {"append", "clear"} =>
                  plast.steps[i][2] = DecoratedBy(plast.func)
        /\ HasStep(plast.steps, "set_lock") =>
              StepArg(plast.steps, "set_lock")[1] = PLock
        /\ plast.held \subseteq locks
        /\ locks \ plast.held \subseteq {PLock}
        /\ plast.outcome = "PerfDegradationException" <=> PLock \in plast.held

C10_Witness ==
    /\ PCalled /\ plast.func = "f" /\ plast.arg = "a2"
    /\ <<<<"f", "a1">>, "lock">> \in plast.held
    /\ PInvoked /\ plast.outcome = "r1"
    /\ HasStep(plast.steps, "append") /\ Len(plast.before) > 0

\* C15: in every reachable state every trace holds at most trace_size durations, in
\* call-completion order: an append puts the call's duration last, and on a full
\* trace drops exactly the oldest entry and nothing else.
C15_TraceBound ==
    /\ \A p \in PerfObjs : Len(call_results[p]) <= trace_size
    /\ (PCalled /\ HasStep(plast.steps, "append")) =>
          /\ Len(plast.before) < trace_size => PTrace = Append(plast.before, plast.takes)
          /\ Len(plast.before) = trace_size =>
                PTrace = Tail(plast.before) \o <<plast.takes>>

C15_Witness ==
    /\ PCalled /\ HasStep(plast.steps, "append")
    /\ trace_size >= 2 /\ Len(plast.before) = trace_size
    /\ plast.before[1] # plast.before[2]
    /\ PTrace = Tail(plast.before) \o <<plast.takes>>

\* C19 (as claimed): a call whose incr returns a count other than 1 and other than
\* limit + 1 performs no expire on the key; without ttl the expiry of a key is set
\* exactly once per window (by the call that opens it, and by no other call).
C19_FixedWindow ==
    RCalled =>
        LET expires == Occurrences(rlast.steps, <<"expire_ttl", rlast.key>>)
                       + Occurrences(rlast.steps, <<"expire_period", rlast.key>>)
        IN  /\ rlast.count \notin {1, limit + 1} => expires = 0
            /\ ttl = None => expires = (IF rlast.count = 1 THEN 1 ELSE 0)

\* ------------------------------------------------- formatter: properties

FRegistered == flast.kind = "register"
FByKey == flast.kind = "by_key"
FFields == flast.kind = "fields"
FRoundTrip == FFields /\ flast.origin.formatted

\* a template string with every field "{...}" replaced by "*"
RECURSIVE Starred(_)
Starred(s) ==
    IF s = <<>> THEN <<>>
    ELSE IF Head(s) = "{" THEN <<"*">> \o Starred(Drop(s, IndexOf(s, "}")))
    ELSE <<Head(s)>> \o Starred(Tail(s))

\* the normalized string form of a bound value: None is "", True is "true"
StringForm(value) ==
    IF value = VNone THEN <<>>
    ELSE IF value = VTrue THEN <<"t", "r", "u", "e">>
    ELSE value.v

\* s is the template's text, literal characters as they are and each field
\* replaced by a possibly empty string without ":"
RECURSIVE Verbatim(_, _)
Verbatim(tpl, s) ==
    IF tpl = <<>> THEN s = <<>>
    ELSE IF Head(tpl).t = "lit"
         THEN s # <<>> /\ Head(s) = Head(tpl).v /\ Verbatim(Tail(tpl), Tail(s))
         ELSE \E n \in 0 .. Len(s) :
                  /\ \A i \in 1 .. n : s[i] # ":"
                  /\ Verbatim(Tail(tpl), Drop(s, n))

\* key is an optional prefix ending in ":" followed by the template's text
InClaimedLanguage(tpl, key) ==
    \E p \in 0 .. Len(key) :
        /\ p = 0 \/ key[p] = ":"
        /\ Verbatim(tpl, Drop(key, p))

\* C11: reverse lookup of the key formatted from a registered template without
\* function-aliased fields and a value map binding all its fields succeeds and
\* returns, for each field, the normalized string form of the value bound to it.
C11_RoundTrip ==
    (FRoundTrip /\ ~HasAlias(flast.origin.template)) =>
        /\ flast.found
        /\ \A f \in Fields(flast.origin.template) :
               \E i \in 1 .. Len(flast.groups) :
                   flast.groups[i] = <<f, StringForm(flast.origin.values[f])>>

\* C12: the registry holds for each function identity at most one entry per
\* template string, and registering a (function, template) pair that is already
\* present leaves the whole registry unchanged.
C12_IdempotentRegistration ==
    /\ \A e1, e2 \in registry :
           (e1.func = e2.func
            /\ TemplateString(e1.template) = TemplateString(e2.template)) => e1 = e2
    /\ (FRegistered /\ \E e \in flast.before :
                           e.func = flast.func /\ e.template = flast.template)
          => registry = flast.before

C12_Witness ==
    /\ FRegistered
    /\ ~flast.raised
    /\ \E e \in flast.before : e.func = flast.func /\ e.template = flast.template
    /\ registry = flast.before

\* C13 as stated: get_template_and_func_for(key) returns the registered template
\* string itself with the identity of its function, for some registered entry
\* whose pattern fully matches key, and is absent exactly when none matches.
C13_ReturnsTemplateItself ==
    FByKey =>
        IF flast.found
        THEN \E e \in registry :
                 /\ fullmatch(e.pattern, flast.key).ok
                 /\ flast.template = TemplateString(e.template)
                 /\ flast.func = e.func
        ELSE \A e \in registry : ~fullmatch(e.pattern, flast.key).ok

\* C13 amended: get_template_and_func_for(key) returns the registered template
\* with every field replaced by "*", with the identity of its function, for some
\* registered entry whose pattern fully matches key, and is absent exactly when
\* no registered pattern fully matches key.
C13_ReturnsStarPattern ==
    FByKey =>
        IF flast.found
        THEN \E e \in registry :
                 /\ fullmatch(e.pattern, flast.key).ok
                 /\ flast.template = Starred(TemplateString(e.template))
                 /\ flast.func = e.func
        ELSE \A e \in registry : ~fullmatch(e.pattern, flast.key).ok

C13_Witness ==
    /\ FByKey
    /\ flast.found
    /\ flast.template = <<"u", ":", "*">>
    /\ flast.func = <<"m", "g">>
    /\ \E e \in registry : e.func = <<"m", "f">>

\* C14: a registered pattern accepts a key if and only if the key is an optional
\* prefix ending in ":" followed by the template's literal text verbatim with each
\* field replaced by a possibly empty string without ":", and nothing after it.
C14_PatternLanguage ==
    FFields =>
        (flast.found <=> \E e \in registry : InClaimedLanguage(e.template, flast.key))

\* ------------------------------------- rate_limit under interleaving: properties

\* C16: with ttl configured and limit >= 1, once the call that obtained count
\* limit + 1 has performed expire(ttl) on a key, no call performs an expire on
\* that key until the entry expires.
C16_BanNotReplaced ==
    (limit >= 1 /\ Truthy(ttl) /\ rlast.kind = "step"
     /\ rlast.op \in {"expire_ttl", "expire_period"}) => ~rlast.ban

\* ------------------------------------------- perf under interleaving: properties

\* C17: no call starts the wrapped function for key K at a moment when the lock
\* of K is present in the backend.
C17_NoStartWhileLocked ==
    (plast.kind = "step" /\ plast.op = "start") =>
        <<<<plast.func, plast.arg>>, "lock">> \notin locks

\* C18: between two consecutive set_lock operations issued by the decorated
\* function at least trace_size calls have appended their duration to the trace,
\* and no duration appended by a call is removed by the clear of a call whose
\* condition was evaluated before that append.
C18_OneLockPerFilledTrace ==
    plast.kind = "step" =>
        /\ plast.op = "issue_set_lock" =>
              (plast.since = None \/ plast.since >= trace_size)
        /\ plast.op = "clear" => plast.fresh = 0

====
